---------------------------- MODULE Spec2Model ----------------------------
(***************************************************************************)
(* Container lifecycle and port allocation of the main backend:           *)
(*   services/DockerService.ts   (allocatePort, isPortInUse, create/      *)
(*                                start/stop/removeContainer, reaper)     *)
(*   routes/instanceRoutes.ts    (POST /, GET /, GET /:id, DELETE /:id    *)
(*                                and GET /:id/logs handlers)             *)
(*                                                                         *)
(* The shared state is the api_instances table (records) and the set of   *)
(* containers held by the Docker daemon (containers).  Every await of a   *)
(* handler is a step boundary, so requests interleave between a           *)
(* handler's store and runtime calls.  allocatePort and removeContainer   *)
(* are each taken as one step.                                            *)
(*                                                                         *)
(* Environment: a call to the Docker daemon may fail at any time (the     *)
(* "...Fails" inputs of the actions); a store write (create, update) may  *)
(* fail, and so may the reaper's query.  The queries of the request       *)
(* handlers succeed: a failed one ends the request before it has changed  *)
(* anything.  The daemon refuses to create a container                    *)
(* whose name is taken, binds host ports when a container starts (and     *)
(* refuses the start when the port is held by a running container),       *)
(* publishes the ports of running containers only in its listing, and     *)
(* answers "no such container" to start/inspect/remove of an absent id.   *)
(***************************************************************************)
EXTENDS Integers, Sequences, FiniteSets, TLC

\* ---- bounds of the model ----
PortRange == 2      \* number of host ports in [MIN_PORT, MAX_PORT]
NumCreates == 2     \* concurrent POST /api/instances requests
NumDeletes == 1     \* concurrent DELETE /api/instances/:id requests
MaxTime == 2        \* distinct clock readings of the requests

\* ---- program constants ----
MIN_PORT == 3001
MAX_PORT == MIN_PORT + PortRange - 1

Ports == MIN_PORT..MAX_PORT
Creates == 1..NumCreates
Deletes == 1..NumDeletes
Users == {"u1", "u2"}
\* ids a request can name (the rows that can come to exist and one more) and
\* container ids the daemon can hand out
RecordIds == 1..(PortRange + NumCreates + 1)
ContainerIds == 1..(PortRange + NumCreates + 1)
NoPort == 0         \* allocatePort threw "No available ports in range"
NULL == 0           \* null column / unset local
\* Date.now() of a request; the instances that exist initially were created
\* at the earlier times 1..PortRange
Times == (PortRange + 1)..(PortRange + MaxTime)

\* req.user.id of each POST request: the first two requests come from the
\* same user, the others from a second user.
userOf == [r \in Creates |-> IF r <= 2 THEN "u1" ELSE "u2"]

VARIABLES
  records,      \* api_instances table: sequence of rows, row id = index
  containers,   \* Docker daemon: container id -> [name, port, state, labelled]
  nextId,       \* next container id the daemon hands out
  creq,         \* per POST request: position and locals of the handler
  dreq,         \* per DELETE request: position and locals of the handler
  reaper,       \* position and locals of cleanupOrphanedContainers
  qreq          \* the GET request (one, list or logs): position and locals

vars == <<records, containers, nextId, creq, dreq, reaper, qreq>>

ActiveStatuses == {"CREATING", "RUNNING"}

\* ------------------------------------------------------------------------
\* DockerService (pure parts)
\* ------------------------------------------------------------------------

\* mutant: the query forgets the CREATING rows
usedPortsOf_OnlyRunning(recs) ==
  {recs[i].port : i \in {j \in DOMAIN recs : recs[j].status = "RUNNING"}}

\* prisma.apiInstance.findMany({where: {status: {in: [CREATING, RUNNING]}},
\* select: {port}}) turned into the Set usedPorts
usedPortsOf(recs) ==
  {recs[i].port : i \in {j \in DOMAIN recs : recs[j].status \in ActiveStatuses}}

\* an isPortInUse that treats a failed listing as "in use"
isPortInUse_FailsClosed(port, cs, listFails) ==
  IF listFails THEN TRUE
  ELSE \E c \in DOMAIN cs : cs[c].state = "running" /\ cs[c].port = port

\* mutant: the comparison never matches (say, PrivatePort is compared)
isPortInUse_NeverMatches(port, cs, listFails) ==
  IF listFails THEN FALSE
  ELSE \E c \in DOMAIN cs : cs[c].state = "running" /\ cs[c].port = port - MAX_PORT

\* isPortInUse: some listed container publishes the port; false when the
\* listing throws
isPortInUse(port, cs, listFails) ==
  IF listFails THEN FALSE
  ELSE \E c \in DOMAIN cs : cs[c].state = "running" /\ cs[c].port = port

\* the for loop of allocatePort from a given candidate on; listFailsAt is the
\* set of candidates for which docker.listContainers throws
RECURSIVE scanPorts(_, _, _, _)
scanPorts(port, usedPorts, cs, listFailsAt) ==
  IF port > MAX_PORT THEN NoPort
  ELSE IF port \notin usedPorts /\ ~isPortInUse(port, cs, port \in listFailsAt)
       THEN port
       ELSE scanPorts(port + 1, usedPorts, cs, listFailsAt)

allocatePort(recs, cs, listFailsAt) ==
  scanPorts(MIN_PORT, usedPortsOf(recs), cs, listFailsAt)

\* containerName = `api-instance-${userId}-${timestamp}`
containerNameOf(userId, timestamp) == <<userId, timestamp>>

\* docker.createContainer: the daemon refuses a name that is taken (409)
nameTaken(cs, name) == \E c \in DOMAIN cs : cs[c].name = name

\* container.start: the daemon cannot start an absent container and cannot
\* bind a host port that a running container holds
startRefused(cs, cid) ==
  \/ cid \notin DOMAIN cs
  \/ \E c \in DOMAIN cs \ {cid} : cs[c].state = "running" /\ cs[c].port = cs[cid].port

without(cs, cid) == [c \in DOMAIN cs \ {cid} |-> cs[c]]

\* a removeContainer without the inner try/catch: a failed inspection or a
\* failed stop ends the call before container.remove
removeContainer_StopMustSucceed(cs, cid, inspectFails, stopFails, removeFails) ==
  LET exists == cid \in DOMAIN cs
      running == exists /\ ~inspectFails /\ cs[cid].state = "running"
      afterStop == IF running /\ ~stopFails
                   THEN [cs EXCEPT ![cid].state = "exited"] ELSE cs
  IN IF ~exists \/ removeFails \/ inspectFails \/ (running /\ stopFails)
     THEN [ok |-> FALSE, containers |-> afterStop, stopCalled |-> running]
     ELSE [ok |-> TRUE, containers |-> without(cs, cid), stopCalled |-> running]

\* removeContainer: inspect, stop when running (a failure of either is only
\* logged), then container.remove({force: true}); any failure of the remove
\* call, "no such container" included, is rethrown.
\* stopCalled: the inspection answered Running and stopContainer was called
removeContainer(cs, cid, inspectFails, stopFails, removeFails) ==
  LET exists == cid \in DOMAIN cs
      running == exists /\ ~inspectFails /\ cs[cid].state = "running"
      afterStop == IF running /\ ~stopFails
                   THEN [cs EXCEPT ![cid].state = "exited"] ELSE cs
  IN IF ~exists \/ removeFails
     THEN [ok |-> FALSE, containers |-> afterStop, stopCalled |-> running]
     ELSE [ok |-> TRUE, containers |-> without(cs, cid), stopCalled |-> running]

\* ------------------------------------------------------------------------
\* Initial state: no request in flight; the table holds the instances of
\* k earlier, completed POST requests (k = 0 is the state after
\* construction), each RUNNING on the port allocatePort gave it.  The host
\* may run one container the backend did not create, publishing a port of
\* the range that no instance holds, with or without the service label.
\* ------------------------------------------------------------------------
seedUser(i) == IF i % 2 = 1 THEN "u1" ELSE "u2"
seedRecords(k) ==
  [i \in 1..k |-> [userId |-> seedUser(i), containerId |-> i,
                   containerName |-> containerNameOf(seedUser(i), i),
                   port |-> MIN_PORT + i - 1, status |-> "RUNNING",
                   stoppedAt |-> NULL, request |-> NULL]]
seedContainers(k) ==
  [i \in 1..k |-> [name |-> containerNameOf(seedUser(i), i),
                   port |-> MIN_PORT + i - 1, state |-> "running",
                   labelled |-> TRUE]]
foreignContainer(id, port, labelled) ==
  id :> [name |-> <<"ext", id>>, port |-> port, state |-> "running",
         labelled |-> labelled]

idleCreate == [pc |-> "idle", port |-> NoPort, timestamp |-> NULL,
               containerId |-> NULL, instance |-> NULL, unverified |-> FALSE,
               error |-> "none", calls |-> <<>>]
idleDelete == [pc |-> "idle", userId |-> "u1", id |-> NULL, instance |-> NULL,
               error |-> "none", calls |-> <<>>]
idleReaper == [pc |-> "idle", listed |-> {}, compared |-> FALSE,
               dbContainerIds |-> {}, todo |-> {}, failed |-> {}]

idleQuery == [pc |-> "idle", kind |-> "none", userId |-> "u1", id |-> NULL,
              instances |-> {}, failedAt |-> {}, data |-> <<>>, error |-> "none"]

Init ==
  /\ \E k \in 0..PortRange :
       /\ records = seedRecords(k)
       /\ \/ /\ containers = seedContainers(k)
             /\ nextId = k + 1
          \/ \E port \in (MIN_PORT + k)..MAX_PORT, labelled \in BOOLEAN :
               /\ containers = foreignContainer(k + 1, port, labelled) @@ seedContainers(k)
               /\ nextId = k + 2
  /\ creq = [r \in Creates |-> idleCreate]
  /\ dreq = [d \in Deletes |-> idleDelete]
  /\ reaper = idleReaper
  /\ qreq = idleQuery

\* ------------------------------------------------------------------------
\* POST /api/instances
\* ------------------------------------------------------------------------
\* the handler returns or throws: its locals go out of scope; what stays is
\* the response (error) and the log of the calls it made
finishCreate(r, pc, kind, call) ==
  creq' = [creq EXCEPT ![r] = [idleCreate EXCEPT !.pc = pc, !.error = kind,
                                                 !.calls = Append(creq[r].calls, call)]]

\* dockerService.initialize(): docker.ping()
CreateInitialize(r, pingFails) ==
  /\ creq[r].pc = "idle"
  /\ IF pingFails
     THEN finishCreate(r, "failed", "Unavailable", "ping")
     ELSE creq' = [creq EXCEPT ![r].pc = "init", ![r].calls = Append(@, "ping")]
  /\ UNCHANGED <<records, containers, nextId, dreq, reaper, qreq>>

\* createContainer up to the runtime call: allocatePort, then Date.now() for
\* the container's name
CreateAllocate(r, listFailsAt, timestamp) ==
  /\ creq[r].pc = "init"
  /\ LET port == allocatePort(records, containers, listFailsAt) IN
     IF port = NoPort
     THEN finishCreate(r, "failed", "NoCapacity", "allocatePort")
     ELSE creq' = [creq EXCEPT ![r].pc = "allocated", ![r].port = port,
                               ![r].timestamp = timestamp,
                               ![r].unverified = (port \in listFailsAt),
                               ![r].calls = Append(@, "allocatePort")]
  /\ UNCHANGED <<records, containers, nextId, dreq, reaper, qreq>>

\* mutant: the row is written before the runtime call and stays when the
\* call fails
CreateContainer_RecordFirst(r, createFails) ==
  /\ creq[r].pc = "allocated"
  /\ LET name == containerNameOf(userOf[r], creq[r].timestamp)
         row == [userId |-> userOf[r], containerId |-> NULL, containerName |-> name,
                 port |-> creq[r].port, status |-> "CREATING", stoppedAt |-> NULL,
                 request |-> r] IN
     IF nameTaken(containers, name) \/ createFails
     THEN /\ finishCreate(r, "failed", "CreationError", "create")
          /\ records' = Append(records, row)
          /\ UNCHANGED <<containers, nextId>>
     ELSE /\ containers' = (nextId :> [name |-> name, port |-> creq[r].port,
                                       state |-> "created", labelled |-> TRUE])
                           @@ containers
          /\ nextId' = nextId + 1
          /\ creq' = [creq EXCEPT ![r].pc = "created", ![r].containerId = nextId,
                                  ![r].calls = Append(@, "create")]
          /\ UNCHANGED records
  /\ UNCHANGED <<dreq, reaper, qreq>>

\* docker.createContainer(containerConfig)
CreateContainer(r, createFails) ==
  /\ creq[r].pc = "allocated"
  /\ LET name == containerNameOf(userOf[r], creq[r].timestamp) IN
     IF nameTaken(containers, name)
     THEN /\ finishCreate(r, "failed", "Conflict", "create")
          /\ UNCHANGED <<containers, nextId>>
     ELSE IF createFails
     THEN /\ finishCreate(r, "failed", "CreationError", "create")
          /\ UNCHANGED <<containers, nextId>>
     ELSE /\ containers' = (nextId :> [name |-> name, port |-> creq[r].port,
                                       state |-> "created", labelled |-> TRUE])
                           @@ containers
          /\ nextId' = nextId + 1
          /\ creq' = [creq EXCEPT ![r].pc = "created", ![r].containerId = nextId,
                                  ![r].calls = Append(@, "create")]
  /\ UNCHANGED <<records, dreq, reaper, qreq>>

\* a table whose containerName column is not @unique
uniqueViolation_IdOnly(recs, cid, name) ==
  \E i \in DOMAIN recs : recs[i].containerId = cid

\* prisma.apiInstance.create: containerId and containerName are @unique
uniqueViolation(recs, cid, name) ==
  \E i \in DOMAIN recs : recs[i].containerId = cid \/ recs[i].containerName = name

\* a handler that removes its container when the row cannot be persisted
CreatePersist_Cleanup(r, storeFails) ==
  /\ creq[r].pc = "created"
  /\ LET name == containerNameOf(userOf[r], creq[r].timestamp) IN
     IF storeFails \/ uniqueViolation(records, creq[r].containerId, name)
     THEN /\ finishCreate(r, "failed", "PersistError", "persist")
          /\ containers' = removeContainer(containers, creq[r].containerId,
                                           FALSE, FALSE, FALSE).containers
          /\ UNCHANGED records
     ELSE /\ records' = Append(records,
                 [userId |-> userOf[r], containerId |-> creq[r].containerId,
                  containerName |-> name, port |-> creq[r].port,
                  status |-> "CREATING", stoppedAt |-> NULL, request |-> r])
          /\ creq' = [creq EXCEPT ![r].pc = "persisted",
                                  ![r].instance = Len(records) + 1,
                                  ![r].calls = Append(@, "persist")]
          /\ UNCHANGED containers
  /\ UNCHANGED <<nextId, dreq, reaper, qreq>>

\* the row is persisted as RUNNING before the container is started
CreatePersist_Running(r, storeFails) ==
  /\ creq[r].pc = "created"
  /\ LET name == containerNameOf(userOf[r], creq[r].timestamp) IN
     IF storeFails \/ uniqueViolation(records, creq[r].containerId, name)
     THEN /\ finishCreate(r, "failed", "PersistError", "persist")
          /\ UNCHANGED records
     ELSE /\ records' = Append(records,
                 [userId |-> userOf[r], containerId |-> creq[r].containerId,
                  containerName |-> name, port |-> creq[r].port,
                  status |-> "RUNNING", stoppedAt |-> NULL, request |-> r])
          /\ creq' = [creq EXCEPT ![r].pc = "persisted",
                                  ![r].instance = Len(records) + 1,
                                  ![r].calls = Append(@, "persist")]
  /\ UNCHANGED <<containers, nextId, dreq, reaper, qreq>>

CreatePersist(r, storeFails) ==
  /\ creq[r].pc = "created"
  /\ LET name == containerNameOf(userOf[r], creq[r].timestamp) IN
     IF storeFails \/ uniqueViolation(records, creq[r].containerId, name)
     THEN /\ finishCreate(r, "failed", "PersistError", "persist")
          /\ UNCHANGED records
     ELSE /\ records' = Append(records,
                 [userId |-> userOf[r], containerId |-> creq[r].containerId,
                  containerName |-> name, port |-> creq[r].port,
                  status |-> "CREATING", stoppedAt |-> NULL, request |-> r])
          /\ creq' = [creq EXCEPT ![r].pc = "persisted",
                                  ![r].instance = Len(records) + 1,
                                  ![r].calls = Append(@, "persist")]
  /\ UNCHANGED <<containers, nextId, dreq, reaper, qreq>>

\* a startContainer that itself marks the row of the container RUNNING
CreateStart_WritesRecord(r, startFails) ==
  /\ creq[r].pc = "persisted"
  /\ IF startFails \/ startRefused(containers, creq[r].containerId)
     THEN /\ finishCreate(r, "failed", "StartError", "start")
          /\ UNCHANGED <<containers, records>>
     ELSE /\ containers' = [containers EXCEPT ![creq[r].containerId].state = "running"]
          /\ records' = [records EXCEPT ![creq[r].instance].status = "RUNNING"]
          /\ creq' = [creq EXCEPT ![r].pc = "started", ![r].calls = Append(@, "start")]
  /\ UNCHANGED <<nextId, dreq, reaper, qreq>>

\* dockerService.startContainer(containerInfo.containerId); a failure goes
\* straight to the handler's catch, which rethrows it as an ApiError
CreateStart(r, startFails) ==
  /\ creq[r].pc = "persisted"
  /\ IF startFails \/ startRefused(containers, creq[r].containerId)
     THEN /\ finishCreate(r, "failed", "StartError", "start")
          /\ UNCHANGED containers
     ELSE /\ containers' = [containers EXCEPT ![creq[r].containerId].state = "running"]
          /\ creq' = [creq EXCEPT ![r].pc = "started", ![r].calls = Append(@, "start")]
  /\ UNCHANGED <<records, nextId, dreq, reaper, qreq>>

\* prisma.apiInstance.update({where: {id}, data: {status: 'RUNNING'}}), then
\* the 201 response
CreateUpdate(r, storeFails) ==
  /\ creq[r].pc = "started"
  /\ IF storeFails
     THEN /\ finishCreate(r, "failed", "UpdateError", "update")
          /\ UNCHANGED records
     ELSE /\ records' = [records EXCEPT ![creq[r].instance].status = "RUNNING"]
          /\ finishCreate(r, "done", "none", "update")
  /\ UNCHANGED <<containers, nextId, dreq, reaper, qreq>>

\* ------------------------------------------------------------------------
\* DELETE /api/instances/:id
\* ------------------------------------------------------------------------
\* a lookup by id alone, without the owner in the where clause
findFirst_AnyOwner(recs, id, userId) ==
  IF id \in DOMAIN recs /\ recs[id].stoppedAt = NULL THEN id ELSE NULL

\* prisma.apiInstance.findFirst({where: {id, userId, stoppedAt: null}})
findFirst(recs, id, userId) ==
  IF id \in DOMAIN recs /\ recs[id].userId = userId /\ recs[id].stoppedAt = NULL
  THEN id ELSE NULL

\* req.params.id is the id of a row or one id that names no row
DeleteLookup(d, id, userId) ==
  /\ dreq[d].pc = "idle"
  /\ id <= Len(records) + 1
  /\ LET instance == findFirst(records, id, userId) IN
     dreq' = [dreq EXCEPT ![d].pc = IF instance = NULL THEN "failed" ELSE "found",
                          ![d].error = IF instance = NULL THEN "NotFound" ELSE "none",
                          ![d].userId = userId, ![d].id = id,
                          ![d].instance = instance,
                          ![d].calls = Append(@, "findFirst")]
  /\ UNCHANGED <<records, containers, nextId, creq, reaper, qreq>>

\* a handler that only logs a failed removeContainer and goes on to the update
DeleteRemove_IgnoresFailure(d, inspectFails, stopFails, removeFails) ==
  /\ dreq[d].pc = "found"
  /\ LET res == removeContainer(containers, records[dreq[d].instance].containerId,
                                inspectFails, stopFails, removeFails) IN
     /\ containers' = res.containers
     /\ dreq' = [dreq EXCEPT ![d].pc = "removed",
                             ![d].calls = Append(@, "removeContainer")]
  /\ UNCHANGED <<records, nextId, creq, reaper, qreq>>

\* dockerService.removeContainer(instance.containerId); the row's containerId
\* never changes, so it is read from the table
DeleteRemove(d, inspectFails, stopFails, removeFails) ==
  /\ dreq[d].pc = "found"
  /\ LET res == removeContainer(containers, records[dreq[d].instance].containerId,
                                inspectFails, stopFails, removeFails) IN
     /\ containers' = res.containers
     /\ dreq' = [dreq EXCEPT ![d].pc = IF res.ok THEN "removed" ELSE "failed",
                             ![d].error = IF res.ok THEN "none" ELSE "RemovalError",
                             ![d].calls = Append(@, "removeContainer")]
  /\ UNCHANGED <<records, nextId, creq, reaper, qreq>>

\* prisma.apiInstance.update({data: {status: 'STOPPED', stoppedAt: new Date()}})
DeleteUpdate(d, storeFails, stoppedAt) ==
  /\ dreq[d].pc = "removed"
  /\ IF storeFails
     THEN /\ dreq' = [dreq EXCEPT ![d].pc = "failed", ![d].error = "UpdateError",
                                  ![d].calls = Append(@, "update")]
          /\ UNCHANGED records
     ELSE /\ records' = [records EXCEPT ![dreq[d].instance].status = "STOPPED",
                                        ![dreq[d].instance].stoppedAt = stoppedAt]
          /\ dreq' = [dreq EXCEPT ![d].pc = "done", ![d].calls = Append(@, "update")]
  /\ UNCHANGED <<containers, nextId, creq, reaper, qreq>>

\* ------------------------------------------------------------------------
\* GET /api/instances, GET /api/instances/:id, GET /api/instances/:id/logs
\* ------------------------------------------------------------------------
\* String.prototype.toUpperCase on the state strings of the daemon
toUpperCase(str) ==
  CASE str = "created" -> "CREATED"
    [] str = "running" -> "RUNNING"
    [] str = "exited" -> "EXITED"
    [] str = "error" -> "ERROR"

\* a getContainerStatus that rethrows the failure of container.inspect()
getContainerStatus_Throws(cs, cid, inspectFails) ==
  IF inspectFails \/ cid \notin DOMAIN cs
  THEN [threw |-> TRUE, status |-> "error", running |-> FALSE]
  ELSE [threw |-> FALSE, status |-> cs[cid].state,
        running |-> (cs[cid].state = "running")]

\* getContainerStatus: container.inspect(); a failure is caught and answered
\* with {status: 'error', running: false}, never thrown
getContainerStatus(cs, cid, inspectFails) ==
  IF inspectFails \/ cid \notin DOMAIN cs
  THEN [threw |-> FALSE, status |-> "error", running |-> FALSE]
  ELSE [threw |-> FALSE, status |-> cs[cid].state,
        running |-> (cs[cid].state = "running")]

\* status.running ? 'RUNNING' : status.status.toUpperCase()
statusOf(st) == IF st.running THEN "RUNNING" ELSE toUpperCase(st.status)

\* prisma.apiInstance.findMany({where: {userId, stoppedAt: null}})
findMany(recs, userId) ==
  {i \in DOMAIN recs : recs[i].userId = userId /\ recs[i].stoppedAt = NULL}

\* prisma.apiInstance.findFirst({where: {id, userId}}) of the logs handler
findFirstAnyState(recs, id, userId) ==
  IF id \in DOMAIN recs /\ recs[id].userId = userId THEN id ELSE NULL

\* the lookup of GET /:id and of GET /:id/logs; no row: ApiError 404
lookupOne(kind, instance, id, userId) ==
  [idleQuery EXCEPT !.kind = kind, !.userId = userId, !.id = id,
                    !.pc = IF instance = NULL THEN "failed" ELSE "found",
                    !.error = IF instance = NULL THEN "NotFound" ELSE "none",
                    !.instances = IF instance = NULL THEN {} ELSE {instance}]

GetLookup(id, userId) ==
  /\ qreq.pc = "idle"
  /\ id <= Len(records) + 1
  /\ qreq' = lookupOne("get", findFirst(records, id, userId), id, userId)
  /\ UNCHANGED <<records, containers, nextId, creq, dreq, reaper>>

\* getContainerStatus for the row found, then the 200 response
GetStatus(inspectFails) ==
  /\ qreq.pc = "found" /\ qreq.kind = "get"
  /\ LET i == CHOOSE j \in qreq.instances : TRUE
         st == getContainerStatus(containers, records[i].containerId, inspectFails) IN
     qreq' = IF st.threw
             THEN [qreq EXCEPT !.pc = "failed", !.error = "InspectionError"]
             ELSE [qreq EXCEPT !.pc = "done", !.data = (i :> statusOf(st)),
                               !.failedAt = IF inspectFails THEN {i} ELSE {}]
  /\ UNCHANGED <<records, containers, nextId, creq, dreq, reaper>>

ListLookup(userId) ==
  /\ qreq.pc = "idle"
  /\ qreq' = [idleQuery EXCEPT !.kind = "list", !.userId = userId, !.pc = "found",
                               !.instances = findMany(records, userId)]
  /\ UNCHANGED <<records, containers, nextId, creq, dreq, reaper>>

\* Promise.all over the rows found: getContainerStatus of each, a throw of
\* one is caught in its own callback and answered with status ERROR;
\* inspectFailsAt are the rows whose container.inspect() fails
ListStatus(inspectFailsAt) ==
  /\ qreq.pc = "found" /\ qreq.kind = "list"
  /\ inspectFailsAt \subseteq qreq.instances
  /\ LET st(i) == getContainerStatus(containers, records[i].containerId,
                                     i \in inspectFailsAt) IN
     qreq' = [qreq EXCEPT !.pc = "done", !.failedAt = inspectFailsAt,
                          !.data = [i \in qreq.instances |->
                                      IF st(i).threw THEN "ERROR" ELSE statusOf(st(i))]]
  /\ UNCHANGED <<records, containers, nextId, creq, dreq, reaper>>

LogsLookup(id, userId) ==
  /\ qreq.pc = "idle"
  /\ id <= Len(records) + 1
  /\ qreq' = lookupOne("logs", findFirstAnyState(records, id, userId), id, userId)
  /\ UNCHANGED <<records, containers, nextId, creq, dreq, reaper>>

\* getContainerLogs: container.logs(); a failure is rethrown (500)
LogsRead(logsFail) ==
  /\ qreq.pc = "found" /\ qreq.kind = "logs"
  /\ LET i == CHOOSE j \in qreq.instances : TRUE IN
     qreq' = IF logsFail \/ records[i].containerId \notin DOMAIN containers
             THEN [qreq EXCEPT !.pc = "failed", !.error = "LogsError"]
             ELSE [qreq EXCEPT !.pc = "done", !.data = (i :> "logs")]
  /\ UNCHANGED <<records, containers, nextId, creq, dreq, reaper>>

\* ------------------------------------------------------------------------
\* cleanupOrphanedContainers
\* ------------------------------------------------------------------------
\* docker.listContainers({all: true, filters: {label: ['api-hub.service=dummy-api']}})
\* a listing without the label filter
labelledContainers_All(cs) == DOMAIN cs

labelledContainers(cs) == {c \in DOMAIN cs : cs[c].labelled}

\* prisma.apiInstance.findMany({select: {containerId}}) as the Set dbContainerIds
containerIdsOf(recs) == {recs[i].containerId : i \in DOMAIN recs}

\* mutant: the test of the loop is inverted
orphansOf_Inverted(listed, dbContainerIds) == listed \cap dbContainerIds

\* the containers of the listing the loop calls removeContainer for
orphansOf(listed, dbContainerIds) == listed \ dbContainerIds

\* the listing is ordered; the loop takes the newest container first
nextOf(todo) == CHOOSE c \in todo : \A e \in todo : e <= c

ReapList(listFails) ==
  /\ reaper.pc = "idle"
  /\ reaper' = IF listFails
               THEN [reaper EXCEPT !.pc = "done"]
               ELSE [reaper EXCEPT !.pc = "listed",
                                   !.listed = labelledContainers(containers)]
  /\ UNCHANGED <<records, containers, nextId, creq, dreq, qreq>>

\* the query of the rows, and the loop up to its first removeContainer; a
\* failed query ends the cycle in the outer catch
ReapReadDb(storeFails) ==
  /\ reaper.pc = "listed"
  /\ LET ids == containerIdsOf(records)
         todo == orphansOf(reaper.listed, ids) IN
     reaper' = IF storeFails
               THEN [reaper EXCEPT !.pc = "done"]
               ELSE [reaper EXCEPT !.pc = IF todo = {} THEN "done" ELSE "sweeping",
                                   !.compared = TRUE,
                                   !.dbContainerIds = ids, !.todo = todo]
  /\ UNCHANGED <<records, containers, nextId, creq, dreq, qreq>>

\* a loop without the try/catch around removeContainer: the first failure
\* leaves the loop and the function
ReapRemove_Abort(inspectFails, stopFails, removeFails) ==
  /\ reaper.pc = "sweeping"
  /\ LET c == nextOf(reaper.todo)
         res == removeContainer(containers, c, inspectFails, stopFails, removeFails)
         todo == reaper.todo \ {c} IN
     /\ containers' = res.containers
     /\ reaper' = [reaper EXCEPT !.pc = IF todo = {} \/ ~res.ok THEN "done" ELSE "sweeping",
                                 !.todo = todo,
                                 !.failed = IF res.ok THEN @ ELSE @ \cup {c}]
  /\ UNCHANGED <<records, nextId, creq, dreq, qreq>>

\* one iteration of the loop that reaches removeContainer; its failure is
\* logged and the loop goes on
ReapRemove(inspectFails, stopFails, removeFails) ==
  /\ reaper.pc = "sweeping"
  /\ LET c == nextOf(reaper.todo)
         res == removeContainer(containers, c, inspectFails, stopFails, removeFails)
         todo == reaper.todo \ {c} IN
     /\ containers' = res.containers
     /\ reaper' = [reaper EXCEPT !.pc = IF todo = {} THEN "done" ELSE "sweeping",
                                 !.todo = todo,
                                 !.failed = IF res.ok THEN @ ELSE @ \cup {c}]
  /\ UNCHANGED <<records, nextId, creq, dreq, qreq>>

\* the cycle has returned; a later cycle starts afresh
ReapReturn ==
  /\ reaper.pc = "done"
  /\ reaper' = idleReaper
  /\ UNCHANGED <<records, containers, nextId, creq, dreq, qreq>>

\* ------------------------------------------------------------------------
\* The host outside the backend
\* ------------------------------------------------------------------------
\* somebody removes a container (docker rm -f)
OutOfBandRemove(c) ==
  /\ c \in DOMAIN containers
  /\ containers' = without(containers, c)
  /\ UNCHANGED <<records, nextId, creq, dreq, reaper, qreq>>

\* ------------------------------------------------------------------------
\* Specifications
\* ------------------------------------------------------------------------
CreateStep(r) ==
  \/ \E pingFails \in BOOLEAN : CreateInitialize(r, pingFails)
  \/ \E listFailsAt \in SUBSET Ports, timestamp \in Times :
        CreateAllocate(r, listFailsAt, timestamp)
  \/ \E createFails \in BOOLEAN : CreateContainer(r, createFails)
  \/ \E storeFails \in BOOLEAN : CreatePersist(r, storeFails)
  \/ \E startFails \in BOOLEAN : CreateStart(r, startFails)
  \/ \E storeFails \in BOOLEAN : CreateUpdate(r, storeFails)

DeleteStep(d) ==
  \/ \E id \in RecordIds, userId \in Users : DeleteLookup(d, id, userId)
  \/ \E inspectFails \in BOOLEAN, stopFails \in BOOLEAN, removeFails \in BOOLEAN :
        DeleteRemove(d, inspectFails, stopFails, removeFails)
  \/ \E storeFails \in BOOLEAN, stoppedAt \in Times : DeleteUpdate(d, storeFails, stoppedAt)

ReapStep ==
  \/ \E listFails \in BOOLEAN : ReapList(listFails)
  \/ \E storeFails \in BOOLEAN : ReapReadDb(storeFails)
  \/ \E inspectFails \in BOOLEAN, stopFails \in BOOLEAN, removeFails \in BOOLEAN :
        ReapRemove(inspectFails, stopFails, removeFails)
  \/ ReapReturn

QueryStep ==
  \/ \E id \in RecordIds, userId \in Users : GetLookup(id, userId)
  \/ \E inspectFails \in BOOLEAN : GetStatus(inspectFails)
  \/ \E userId \in Users : ListLookup(userId)
  \/ \E inspectFailsAt \in SUBSET RecordIds : ListStatus(inspectFailsAt)
  \/ \E id \in RecordIds, userId \in Users : LogsLookup(id, userId)
  \/ \E logsFail \in BOOLEAN : LogsRead(logsFail)

HostStep == \E c \in ContainerIds : OutOfBandRemove(c)

\* concurrent POST and DELETE requests on a host where containers may vanish
Next ==
  \/ \E r \in Creates : CreateStep(r)
  \/ \E d \in Deletes : DeleteStep(d)
  \/ HostStep

Spec == Init /\ [][Next]_vars

\* reap cycles running next to one POST and one DELETE request
NextReap ==
  \/ CreateStep(1)
  \/ DeleteStep(1)
  \/ ReapStep
  \/ HostStep

SpecReap == Init /\ [][NextReap]_vars

\* two concurrent POST requests on a host where containers may vanish
NextCreate ==
  \/ CreateStep(1)
  \/ CreateStep(2)
  \/ HostStep

SpecCreate == Init /\ [][NextCreate]_vars

\* one GET request next to one POST and one DELETE request
NextQuery ==
  \/ CreateStep(1)
  \/ DeleteStep(1)
  \/ QueryStep
  \/ HostStep

SpecQuery == Init /\ [][NextQuery]_vars

\* every caller of a DockerService method: one POST request, one GET
\* request and one run of cleanupOrphanedContainers
NextServices ==
  \/ CreateStep(1)
  \/ QueryStep
  \/ ReapStep
  \/ HostStep

SpecServices == Init /\ [][NextServices]_vars

\* the running server: startServer mounts the routes and listens; it sets
\* no timer and nothing calls cleanupOrphanedContainers, so no reaper step
\* is ever taken.  A handler that can take a step takes it.
NextServer ==
  \/ CreateStep(1)
  \/ DeleteStep(1)
  \/ HostStep

SpecServer ==
  Init /\ [][NextServer]_vars /\ WF_vars(CreateStep(1)) /\ WF_vars(DeleteStep(1))

\* ------------------------------------------------------------------------
\* Properties
\* ------------------------------------------------------------------------
activeRecords == {i \in DOMAIN records : records[i].status \in ActiveStatuses}
\* ports held by the CREATING and RUNNING rows
activePorts == {records[i].port : i \in activeRecords}
recordsOf(r) == {i \in DOMAIN records : records[i].request = r}
callsOf(r, call) == Len(SelectSeq(creq[r].calls, LAMBDA c : c = call))
hasActiveRecord(c) == \E i \in activeRecords : records[i].containerId = c
\* the container a DELETE request found the row of
targetOf(d) == records[dreq[d].instance].containerId

\* C1 (port uniqueness): no two rows whose status is CREATING or RUNNING
\* have the same port, in any state concurrent requests can reach.
C1_PortUniqueness ==
  \A i \in activeRecords, j \in activeRecords :
     i # j => records[i].port # records[j].port

\* C2 (idempotent removal): for every container of the runtime, a second
\* removeContainer after a first one that succeeded succeeds as well (no
\* runtime call failing for any reason other than the container's absence).
C2_IdempotentRemoval ==
  \A c \in DOMAIN containers :
     LET first == removeContainer(containers, c, FALSE, FALSE, FALSE) IN
     first.ok => removeContainer(first.containers, c, FALSE, FALSE, FALSE).ok

\* C3 (delete on missing container): when the DELETE handler reaches
\* removeContainer for a row whose container is gone from the runtime, the
\* step does not fail the request.
C3_DeleteOnMissingContainer ==
  [][\A d \in Deletes :
       (/\ dreq[d].pc = "found"
        /\ dreq'[d].pc # "found"
        /\ targetOf(d) \notin DOMAIN containers)
       => dreq'[d].pc = "removed" /\ dreq'[d].error = "none"]_vars

\* C4 (no orphan leak), as claimed: right after a completed reap cycle
\* every labelled container of the runtime has a CREATING or RUNNING row.
C4_NoOrphanLeak ==
  reaper.pc = "done" =>
    \A c \in labelledContainers(containers) : hasActiveRecord(c)

\* C4 amended: right after a completed reap cycle whose listing and query
\* succeeded, every labelled container that the cycle listed and that still
\* exists has a CREATING or RUNNING row, or is one whose removal the cycle
\* attempted and saw fail.
C4_ListedOrphansReaped ==
  (reaper.pc = "done" /\ reaper.compared) =>
    \A c \in reaper.listed \cap DOMAIN containers :
       hasActiveRecord(c) \/ c \in reaper.failed

\* a cycle has ended that removed a listed container without a row and
\* kept a listed container that has one
C4_Witness ==
  /\ reaper.pc = "done"
  /\ reaper.compared
  /\ \E c \in reaper.listed \ reaper.failed :
        c \notin reaper.dbContainerIds /\ c \notin DOMAIN containers
  /\ \E c \in reaper.listed : c \in DOMAIN containers /\ hasActiveRecord(c)

\* C5 (create failure leaves no reservation): a POST request whose
\* createContainer failed (no port, name conflict or runtime error) has
\* persisted no row, and the failing step leaves the table as it was.
C5_CreateFailureNoRecord ==
  /\ [](\A r \in Creates :
         creq[r].error \in {"NoCapacity", "Conflict", "CreationError"}
         => recordsOf(r) = {})
  /\ [][\A r \in Creates :
         (creq[r].pc = "allocated" /\ creq'[r].pc = "failed") => records' = records]_vars

\* the runtime refused or failed the create of a request that had been
\* given a port
C5_Witness ==
  \E r \in Creates : creq[r].error \in {"Conflict", "CreationError"}

\* C6 (exhaustion): an allocation made while every port of the range is
\* held by a CREATING or RUNNING row fails the request with the no-capacity
\* error and changes neither the table nor the runtime; such a request never
\* reaches the runtime create call.
C6_Exhaustion ==
  /\ [](\A r \in Creates :
         creq[r].error = "NoCapacity" =>
           creq[r].pc = "failed" /\ callsOf(r, "create") = 0)
  /\ [][\A r \in Creates :
         (/\ creq[r].pc = "init"
          /\ creq'[r].pc # "init"
          /\ Ports \subseteq activePorts)
         => /\ creq'[r].pc = "failed"
            /\ creq'[r].error = "NoCapacity"
            /\ records' = records
            /\ containers' = containers]_vars

\* a request was refused for lack of capacity while the rows hold all ports
C6_Witness ==
  \E r \in Creates :
     creq[r].error = "NoCapacity" /\ Ports \subseteq activePorts

\* host ports bound by the containers of the runtime
publishedPorts(cs) == {cs[c].port : c \in {d \in DOMAIN cs : cs[d].state = "running"}}

C8_StartFailureMarksError ==
  \A r \in Creates :
     creq[r].error = "StartError" =>
       \A i \in recordsOf(r) : records[i].status = "ERROR"

\* C9 (best-effort cleanup after failed start): a POST request that failed
\* at startContainer has called removeContainer for its container, and the
\* error it answers with is the start error.
C9_CleanupAfterFailedStart ==
  \A r \in Creates :
     (creq[r].pc = "failed" /\ callsOf(r, "start") > 0 /\ callsOf(r, "update") = 0) =>
       creq[r].error = "StartError" /\ callsOf(r, "removeContainer") > 0

\* C10 (bounded retry on bind conflict): a POST request fails on a rejected
\* runtime create only after it has allocated a port again and retried.
C10_RetryOnConflict ==
  \A r \in Creates :
     (creq[r].pc = "failed" /\ creq[r].error \in {"Conflict", "CreationError"}) =>
       callsOf(r, "allocatePort") > 1

\* the table as it would be if no other owner had any row
ownRecords(recs, userId) ==
  [i \in {j \in DOMAIN recs : recs[j].userId = userId} |-> recs[i]]

\* C11 (no existence leakage): the lookups of GET /:id, DELETE /:id and
\* GET /:id/logs find the same row whether or not other owners' rows are in
\* the table, and a request for an id that is another owner's row is
\* answered exactly like a request for an id that names no row: it fails
\* with NotFound ('Instance not found', 404) and no row attached.
C11_NoExistenceLeakage ==
  /\ [](\A id \in RecordIds, userId \in Users :
          /\ findFirst(records, id, userId)
               = findFirst(ownRecords(records, userId), id, userId)
          /\ findFirstAnyState(records, id, userId)
               = findFirstAnyState(ownRecords(records, userId), id, userId))
  /\ [][\A id \in RecordIds, userId \in Users :
          (id \notin DOMAIN records \/ records[id].userId # userId) =>
            /\ (qreq.pc = "idle" /\ qreq'.kind \in {"get", "logs"}
                   /\ qreq'.id = id /\ qreq'.userId = userId) =>
                  (qreq'.pc = "failed" /\ qreq'.error = "NotFound"
                     /\ qreq'.instances = {} /\ qreq'.data = <<>>)
            /\ \A d \in Deletes :
                  (dreq[d].pc = "idle" /\ dreq'[d].pc # "idle"
                     /\ dreq'[d].id = id /\ dreq'[d].userId = userId) =>
                    (dreq'[d].pc = "failed" /\ dreq'[d].error = "NotFound"
                       /\ dreq'[d].instance = NULL)]_vars

\* a GET and a DELETE request for another owner's row have both been
\* answered with NotFound
C11_Witness ==
  /\ qreq.error = "NotFound" /\ qreq.id \in DOMAIN records
  /\ records[qreq.id].userId # qreq.userId
  /\ \E d \in Deletes :
        /\ dreq[d].error = "NotFound" /\ dreq[d].id \in DOMAIN records
        /\ records[dreq[d].id].userId # dreq[d].userId

C13_StoppedIsTerminal ==
  [][\A i \in DOMAIN records :
        records[i].status = "STOPPED" =>
          /\ records'[i].status = "STOPPED"
          /\ records'[i].stoppedAt = records[i].stoppedAt]_vars

\* C14 (every orphan is eventually reaped): in the running server a labelled
\* container whose id no row holds is eventually removed, or gets its row.
C14_OrphanEventuallyReaped ==
  \A c \in ContainerIds :
     (c \in labelledContainers(containers) /\ c \notin containerIdsOf(records))
       ~> (c \notin DOMAIN containers \/ c \in containerIdsOf(records))

\* C15 (no instance stays in Creating for ever): once a POST request has
\* finished, with success or with a failure, no row it persisted is still
\* CREATING.
C15_NoCreatingAfterRequest ==
  \A r \in Creates :
     creq[r].pc \in {"done", "failed"} =>
       \A i \in recordsOf(r) : records[i].status \in {"RUNNING", "ERROR", "STOPPED"}

\* C16 (Running implies created and started): a row's status becomes RUNNING
\* only in a step of the POST request that persisted it, when that request
\* has not failed and its last call was a startContainer that followed its
\* one createContainer; and a POST request becomes done only in the step
\* that writes RUNNING to its row.
C16_RunningImpliesStarted ==
  [][/\ \A i \in DOMAIN records' :
          (/\ records'[i].status = "RUNNING"
           /\ (i \in DOMAIN records => records[i].status # "RUNNING")) =>
            /\ records'[i].request \in Creates
            /\ LET r == records'[i].request IN
               /\ creq[r].pc # "failed" /\ creq'[r] # creq[r]
               /\ callsOf(r, "create") = 1 /\ callsOf(r, "start") = 1
               /\ creq[r].calls[Len(creq[r].calls)] = "start"
     /\ \A r \in Creates :
          (creq[r].pc # "done" /\ creq'[r].pc = "done") =>
            /\ creq'[r].calls[Len(creq'[r].calls)] = "update"
            /\ \E i \in recordsOf(r) :
                  records'[i].status = "RUNNING" /\ records[i].status # "RUNNING"]_vars

\* a POST request has answered with success and its row is RUNNING
C16_Witness ==
  \E r \in Creates :
     /\ creq[r].pc = "done"
     /\ \E i \in recordsOf(r) : records[i].status = "RUNNING"

\* C17 (the reaper spares an in-flight Create's container): while a POST
\* request has created its container and not yet persisted its row, no
\* step of the reaper removes that container.
C17_ReaperSparesInFlightCreate ==
  [][\A r \in Creates :
        (/\ creq[r].pc = "created"
         /\ creq[r].containerId \in DOMAIN containers
         /\ reaper' # reaper) =>
          creq[r].containerId \in DOMAIN containers']_vars

\* C18 (the reaper removes only the set difference): every removeContainer
\* of a reap cycle is for one container that the cycle listed, that carries
\* the service label and whose id is not among the containerIds the cycle
\* read from the table; that step leaves every other container as it was,
\* and the other steps of the reaper change no container.
C18_ReaperRemovesOnlyDifference ==
  [][reaper' # reaper =>
       IF reaper.pc = "sweeping"
       THEN \E c \in reaper.todo :
               /\ reaper'.todo = reaper.todo \ {c}
               /\ c \in reaper.listed /\ c \notin reaper.dbContainerIds
               /\ c \in DOMAIN containers => containers[c].labelled
               /\ \A e \in DOMAIN containers \ {c} :
                     e \in DOMAIN containers' /\ containers'[e] = containers[e]
       ELSE containers' = containers]_vars

\* a cycle has removed an orphan while a container with a row and an
\* unlabelled container are still there
C18_Witness ==
  /\ reaper.pc = "done"
  /\ \E c \in reaper.listed \ reaper.dbContainerIds :
        c \notin reaper.failed /\ c \notin DOMAIN containers
  /\ \E e \in DOMAIN containers : ~containers[e].labelled
  /\ \E e \in DOMAIN containers : e \in containerIdsOf(records)

\* C19 (reaper failure isolation): a removeContainer that fails does not end
\* the cycle: the cycle goes on while orphans are left, and when it returns
\* after a successful listing and query it has called removeContainer for
\* every orphan it found.
C19_ReaperFailureIsolation ==
  /\ [](reaper.pc \in {"idle", "listed", "sweeping", "done"})
  /\ []((reaper.pc = "done" /\ reaper.compared) =>
          /\ reaper.todo = {}
          /\ reaper.failed \subseteq reaper.listed \ reaper.dbContainerIds)
  /\ [][(reaper.pc = "sweeping" /\ reaper' # reaper) =>
          /\ Cardinality(reaper.todo \ reaper'.todo) = 1
          /\ reaper'.todo \subseteq reaper.todo
          /\ reaper'.pc = IF reaper'.todo = {} THEN "done" ELSE "sweeping"]_vars

\* a cycle has returned after one removeContainer failed and a later one,
\* for another orphan, removed its container
C19_Witness ==
  /\ reaper.pc = "done"
  /\ \E c \in reaper.failed, e \in (reaper.listed \ reaper.dbContainerIds) \ reaper.failed :
        e < c /\ e \notin DOMAIN containers

\* C20 (Delete by a non-owner or for an unknown id has no effect): a DELETE
\* request whose id names no row of the caller with stoppedAt null fails
\* with NotFound in its lookup step, which changes no row and no container;
\* the request has then made no call but the lookup and takes no further
\* step.
C20_DeleteNotFoundNoEffect ==
  /\ [][\A d \in Deletes :
          (dreq[d].pc = "idle" /\ dreq'[d] # dreq[d]) =>
            LET id == dreq'[d].id
                userId == dreq'[d].userId IN
            ~(/\ id \in DOMAIN records
              /\ records[id].userId = userId
              /\ records[id].stoppedAt = NULL) =>
              /\ dreq'[d].pc = "failed" /\ dreq'[d].error = "NotFound"
              /\ records' = records /\ containers' = containers]_vars
  /\ [](\A d \in Deletes :
          dreq[d].error = "NotFound" =>
            dreq[d].pc = "failed" /\ dreq[d].calls = <<"findFirst">>)
  /\ [][\A d \in Deletes : dreq[d].pc = "failed" => dreq'[d] = dreq[d]]_vars

\* a DELETE for another owner's row has failed with NotFound while the row
\* is still active and its container still there
C20_Witness ==
  \E d \in Deletes :
     /\ dreq[d].error = "NotFound" /\ dreq[d].id \in DOMAIN records
     /\ LET row == records[dreq[d].id] IN
        /\ row.userId # dreq[d].userId
        /\ row.status = "RUNNING" /\ row.stoppedAt = NULL
        /\ row.containerId \in DOMAIN containers

\* the call a step of a request has just made, "none" when it made none
calledIn(before, after) ==
  IF Len(after) = Len(before) + 1 THEN after[Len(after)] ELSE "none"

\* C21 (only the route handlers write rows): every step that is a
\* DockerService operation -- initialize, allocatePort, createContainer,
\* startContainer, removeContainer with its stop, getContainerStatus,
\* getContainerLogs, and every step of cleanupOrphanedContainers -- leaves
\* the table as it was.
C21_ServicesNeverWriteRecords ==
  [][(\/ reaper' # reaper
      \/ (qreq.pc = "found" /\ qreq' # qreq)
      \/ \E r \in Creates :
            calledIn(creq[r].calls, creq'[r].calls)
              \in {"ping", "allocatePort", "create", "start"}
      \/ \E d \in Deletes :
            calledIn(dreq[d].calls, dreq'[d].calls) = "removeContainer")
       => records' = records]_vars

\* a run of the reaper has compared and returned, a GET request has been
\* answered from the runtime and a POST request has started its container
C21_Witness ==
  /\ reaper.pc = "done" /\ reaper.compared
  /\ qreq.pc = "done"
  /\ \E r \in Creates : callsOf(r, "start") = 1 /\ recordsOf(r) # {}

\* C22 (remove force-removes regardless of state): for every container that
\* exists, whatever its state and whether or not the inspection or the
\* graceful stop fails, a removeContainer whose container.remove call is
\* accepted succeeds and leaves the runtime without that container and with
\* every other container as it was; stopContainer is called only when the
\* container is running.
C22_RemoveRegardlessOfState ==
  \A c \in DOMAIN containers, inspectFails \in BOOLEAN, stopFails \in BOOLEAN :
     LET res == removeContainer(containers, c, inspectFails, stopFails, FALSE) IN
     /\ res.ok
     /\ DOMAIN res.containers = DOMAIN containers \ {c}
     /\ \A e \in DOMAIN res.containers : res.containers[e] = containers[e]
     /\ containers[c].state # "running" => ~res.stopCalled

\* a DELETE request has removed a container that its POST request had
\* created and not yet started
C22_Witness ==
  \E d \in Deletes :
     /\ dreq[d].pc = "removed"
     /\ targetOf(d) \notin DOMAIN containers
     /\ LET row == records[dreq[d].instance] IN
        /\ row.status = "CREATING"
        /\ row.request \in Creates
        /\ creq[row.request].pc = "persisted"

\* C23 (Delete passes through Stopping): a row becomes STOPPED only from
\* STOPPING, and a DELETE request calls removeContainer only for a row that
\* is STOPPING.
C23_DeleteThroughStopping ==
  [][/\ \A i \in DOMAIN records :
          (records'[i].status = "STOPPED" /\ records[i].status # "STOPPED") =>
            records[i].status = "STOPPING"
     /\ \A d \in Deletes :
          calledIn(dreq[d].calls, dreq'[d].calls) = "removeContainer" =>
            records[dreq[d].instance].status = "STOPPING"]_vars

\* C24 (containerId reflects a successful runtime create): every row has a
\* non-empty containerId that the runtime has issued, no two rows share one,
\* a row is added only by a request whose last call was a createContainer
\* that returned that id, and a request whose createContainer failed has no
\* row.
C24_ContainerIdFromCreate ==
  /\ [](\A i \in DOMAIN records :
          /\ records[i].containerId # NULL
          /\ records[i].containerId \in 1..(nextId - 1)
          /\ \A j \in DOMAIN records \ {i} :
                records[j].containerId # records[i].containerId)
  /\ [](\A r \in Creates :
          (creq[r].pc = "failed" /\ callsOf(r, "create") = 1 /\ callsOf(r, "persist") = 0)
            => recordsOf(r) = {})
  /\ [][\A i \in DOMAIN records' \ DOMAIN records :
          /\ records'[i].request \in Creates
          /\ LET r == records'[i].request IN
             /\ creq[r].pc = "created"
             /\ creq[r].calls[Len(creq[r].calls)] = "create"
             /\ creq[r].containerId # NULL
             /\ records'[i].containerId = creq[r].containerId]_vars

\* one request has its row, whose containerId names the container created
\* under the row's name, and the createContainer of another has failed
C24_Witness ==
  \E r \in Creates, q \in Creates :
     /\ creq[q].error = "CreationError"
     /\ \E i \in recordsOf(r) :
           /\ records[i].containerId \in DOMAIN containers
           /\ containers[records[i].containerId].name = records[i].containerName

\* C25 (a container-name collision is a hard failure): no two rows share a
\* containerName; a request whose name (owner and timestamp) is the name of
\* a container fails at createContainer, and one whose name is the
\* containerName of a row fails at the latest when it persists, in both
\* cases without adding a row.
C25_NameCollisionFails ==
  /\ [](\A i \in DOMAIN records, j \in DOMAIN records :
          records[i].containerName = records[j].containerName => i = j)
  /\ [][\A r \in Creates :
          LET name == <<userOf[r], creq[r].timestamp>> IN
          (/\ creq'[r] # creq[r]
           /\ \/ creq[r].pc = "allocated"
                   /\ \E c \in DOMAIN containers : containers[c].name = name
              \/ creq[r].pc = "created"
                   /\ \E i \in DOMAIN records : records[i].containerName = name) =>
            (creq'[r].pc = "failed" /\ records' = records)]_vars

\* a request has been refused for its name while the request that took
\* the name has its row
C25_Witness ==
  \E r \in Creates, q \in Creates :
     /\ creq[r].error = "Conflict"
     /\ \E i \in recordsOf(q) :
           records[i].userId = userOf[r] /\ records[i].status = "RUNNING"

\* C26 (status and stoppedAt agree): a row has stoppedAt set exactly when
\* its status is STOPPED.
C26_StoppedAtIffStopped ==
  \A i \in DOMAIN records :
     (records[i].stoppedAt # NULL) <=> (records[i].status = "STOPPED")

\* C27 (Delete marks Stopped only after the removal succeeded): a row
\* becomes STOPPED only in the step of a DELETE request for it whose last
\* call was removeContainer and whose container is gone; the step in which
\* removeContainer throws fails the request and leaves every row as it
\* was, and such a request never reaches its update.
C27_StoppedOnlyAfterRemoval ==
  /\ [][\A i \in DOMAIN records :
          (records'[i].status = "STOPPED" /\ records[i].status # "STOPPED") =>
            \E d \in Deletes :
               /\ dreq[d].instance = i /\ dreq'[d] # dreq[d]
               /\ dreq[d].calls[Len(dreq[d].calls)] = "removeContainer"
               /\ records[i].containerId \notin DOMAIN containers]_vars
  /\ [][\A d \in Deletes :
          (dreq[d].pc = "found" /\ dreq'[d].pc = "failed") =>
            (dreq'[d].error = "RemovalError" /\ records' = records)]_vars
  /\ [](\A d \in Deletes :
          dreq[d].error = "RemovalError" =>
            /\ dreq[d].pc = "failed"
            /\ dreq[d].calls = <<"findFirst", "removeContainer">>)

\* removeContainer has thrown after stopping the container: the request
\* has failed and the row is still RUNNING on its port with stoppedAt null
C27_Witness ==
  \E d \in Deletes :
     /\ dreq[d].error = "RemovalError"
     /\ dreq[d].id \in DOMAIN records
     /\ LET row == records[dreq[d].id] IN
        /\ row.status = "RUNNING" /\ row.stoppedAt = NULL /\ row.port \in Ports
        /\ row.containerId \in DOMAIN containers
        /\ containers[row.containerId].state = "exited"

\* C28 (a failed persist leaves an unrecorded container): the step in which
\* the prisma create of a POST request fails ends the request with the
\* persist error and changes neither the runtime nor the table, so the
\* request's container, if still there, stays created, not started and
\* without a row; and a container without a row is removed only by a step of
\* the reaper or from outside the backend, never by a request.
C28_PersistFailureLeavesContainer ==
  /\ [][\A r \in Creates :
          (creq[r].pc = "created" /\ creq'[r].pc = "failed") =>
            /\ creq'[r].error = "PersistError"
            /\ containers' = containers /\ records' = records
            /\ LET c == creq[r].containerId IN
               c \in DOMAIN containers' =>
                 (containers'[c].state = "created" /\ c \notin containerIdsOf(records'))]_vars
  /\ [][\A c \in DOMAIN containers :
          (c \notin DOMAIN containers' /\ c \notin containerIdsOf(records)) =>
            (creq' = creq /\ dreq' = dreq)]_vars

\* a POST request has failed at its prisma create and its container is
\* still there, created, labelled and without a row
C28_Witness ==
  \E r \in Creates :
     /\ creq[r].error = "PersistError"
     /\ \E c \in labelledContainers(containers) :
           /\ containers[c].state = "created"
           /\ containers[c].name[1] = userOf[r]
           /\ c \notin containerIdsOf(records)

\* C29 (deleted ports become reusable): once a DELETE request has succeeded
\* for a row holding port p and no other CREATING or RUNNING row holds p,
\* the allocator does not count p as used, and an allocation returns p when
\* no container publishes p and every lower port is held or published.
C29_DeletedPortReusable ==
  \A d \in Deletes :
     dreq[d].pc = "done" =>
       LET i == dreq[d].instance
           p == records[i].port IN
       (\A j \in activeRecords \ {i} : records[j].port # p) =>
         /\ p \notin usedPortsOf(records)
         /\ (/\ p \notin publishedPorts(containers)
             /\ \A q \in MIN_PORT..(p - 1) :
                   q \in activePorts \/ q \in publishedPorts(containers))
              => allocatePort(records, containers, {}) = p

\* C30 (the runtime port check fails open): a check whose listing fails
\* answers "not in use"; an allocation in which every listing fails returns
\* the lowest port that no CREATING or RUNNING row holds (none only when
\* the rows hold every port); and a request whose listing failed for the
\* port it was given goes on with that port, which no such row holds.
C30_PortCheckFailsOpen ==
  /\ [](\A p \in Ports : ~isPortInUse(p, containers, TRUE))
  /\ [](LET free == Ports \ activePorts
            got == allocatePort(records, containers, Ports) IN
        IF free = {} THEN got = NoPort
        ELSE got \in free /\ \A q \in free : got <= q)
  /\ [][\A r \in Creates :
          (creq[r].pc = "init" /\ creq'[r] # creq[r] /\ creq'[r].unverified) =>
            /\ creq'[r].pc = "allocated"
            /\ creq'[r].port \in Ports \ activePorts]_vars

\* a request has been given, after a failed listing, a port that a running
\* container publishes
C30_Witness ==
  \E r \in Creates :
     /\ creq[r].pc = "allocated" /\ creq[r].unverified
     /\ creq[r].port \in publishedPorts(containers)

=============================================================================
